---- MODULE Spec2Model ----
(***************************************************************************)
(* The market research pipeline of market_research_tool.py: the collector, *)
(* the analyzer, the validator and the insight generator, and the main     *)
(* script that runs them in sequence and hands the result to the knowledge *)
(* base and the message broker.                                            *)
(*                                                                         *)
(* Python values are modelled as follows.  A call either returns a value   *)
(* or raises: Ok(v) and Raise(e).  A dict is a function from its keys; a   *)
(* value that may be None is tagged with its type.  Scores are exact       *)
(* numbers: relevance scores and growth figures are counted in tenths      *)
(* (7 is 0.7), a feasibility score is a reduced fraction (0.5 is 1/2).     *)
(***************************************************************************)
EXTENDS Integers, Sequences, FiniteSets, TLC

VARIABLES
    pc,                \* the statement of the main script that runs next
    clock,             \* the last reading of datetime.now()
    raw_data,          \* main's local raw_data
    trends,            \* main's local trends
    validated_trends,  \* main's local validated_trends
    insights,          \* main's local insights
    exc,               \* the exception in flight, "none" when there is none
    failedAt,          \* the statement that raised, "none" when none did
    logged,            \* logger.error / logger.warning messages, in order
    fetchLog,          \* requests.get calls made and what each came to
    modelerCalls,      \* calls of the topic modeler and sentiment analyzer
    validatorCalls,    \* calls of MarketDataValidator.validate
    kbQueries,         \* calls of KnowledgeBaseConnector.query
    kbUpdates,         \* payloads accepted by KnowledgeBaseConnector.update
    published          \* messages accepted by message_broker.publish

vars == <<pc, clock, raw_data, trends, validated_trends, insights, exc,
          failedAt, logged, fetchLog, modelerCalls, validatorCalls,
          kbQueries, kbUpdates, published>>

----------------------------------------------------------------------------
(* Bounds of the model *)

MaxTopics == 2
MaxSentiments == 2
MaxValidated == 2
MaxClock == 1

(* Values the collaborators return *)

Topics == {"ai", "crypto"}
Sentiments == {-5, 8}
NewsDocs == {"news_a", "news_b"}
TwitterDocs == {"tweets_a"}

SeqsUpTo(S, n) == UNION {[1..k -> S] : k \in 0..n}

----------------------------------------------------------------------------
(* Python values *)

Ok(v) == [raises |-> FALSE, value |-> v]
Raise(e) == [raises |-> TRUE, exc |-> e]
Outcomes(S) == {Raise("CollaboratorError")} \cup {Ok(v) : v \in S}

Unbound == [bound |-> FALSE]
Bound(v) == [bound |-> TRUE, value |-> v]

None == [type |-> "None"]
Dict(f) == [type |-> "dict", items |-> f]
EmptyDict == Dict(<<>>)

\* d.get(k, default) on a dict's items
Get(f, k, default) == IF k \in DOMAIN f THEN f[k] ELSE default

\* bool(v) of a value that is None or a dict
Truthy(v) == v.type = "dict" /\ DOMAIN v.items # {}

RECURSIVE Sum(_)
Sum(s) == IF s = <<>> THEN 0 ELSE Head(s) + Sum(Tail(s))

Abs(n) == IF n < 0 THEN -n ELSE n

RECURSIVE Gcd(_, _)
Gcd(a, b) == IF b = 0 THEN a ELSE Gcd(b, a % b)

\* the number n/d, d > 0, as a reduced fraction
Rat(n, d) == LET g == Gcd(Abs(n), d) IN [num |-> n \div g, den |-> d \div g]

----------------------------------------------------------------------------
(* DataCollectionModule *)

NewsUrl == "https://newsapi.org/v2/everything?q=market"
TwitterUrl == "https://api.twitter.com/2/tweets/search/recent"

\* resp is what requests.get, raise_for_status and json() come to
_fetch_data(url, resp) ==
    IF resp.raises
    THEN [raises |-> TRUE, exc |-> resp.exc, log |-> <<"API request failed">>]
    ELSE [raises |-> FALSE, value |-> resp.value, log |-> <<>>]

_fetch_twitter_dataSwallow(resp) ==
    IF resp.raises
    THEN [raises |-> FALSE, value |-> "", log |-> <<"Twitter data fetch failed">>]
    ELSE [raises |-> FALSE, value |-> resp.value, log |-> <<>>]

_fetch_twitter_data(resp) ==
    IF resp.raises
    THEN [raises |-> TRUE, exc |-> resp.exc, log |-> <<"Twitter data fetch failed">>]
    ELSE [raises |-> FALSE, value |-> resp.value, log |-> <<>>]

\* now is what datetime.now() reads if the return statement is reached
collect_market_trends(newsResp, twitterResp, now) ==
    LET news_data == _fetch_data(NewsUrl, newsResp)
        g1 == [url |-> NewsUrl, result |-> newsResp]
    IN
    IF news_data.raises
    THEN [raises |-> TRUE, exc |-> news_data.exc, fetched |-> <<g1>>,
          log |-> news_data.log \o <<"Data collection failed">>]
    ELSE
    LET twitter_data == _fetch_twitter_data(twitterResp)
        g2 == [url |-> TwitterUrl, result |-> twitterResp]
    IN
    IF twitter_data.raises
    THEN [raises |-> TRUE, exc |-> twitter_data.exc, fetched |-> <<g1, g2>>,
          log |-> twitter_data.log \o <<"Data collection failed">>]
    ELSE [raises |-> FALSE,
          value |-> [news |-> news_data.value,
                     social_media |-> twitter_data.value,
                     timestamp |-> now],
          fetched |-> <<g1, g2>>,
          log |-> twitter_data.log]

----------------------------------------------------------------------------
(* DataAnalysisModule *)

RECURSIVE ZipLongest(_, _)
ZipLongest(ts, ss) ==
    IF ts = <<>> /\ ss = <<>> THEN <<>>
    ELSE <<<<IF ts = <<>> THEN "" ELSE Head(ts),
             IF ss = <<>> THEN 0 ELSE Head(ss)>>>>
         \o ZipLongest(IF ts = <<>> THEN <<>> ELSE Tail(ts),
                       IF ss = <<>> THEN <<>> ELSE Tail(ss))

\* zip(topics, sentiments): stops when either is exhausted
RECURSIVE Zip(_, _)
Zip(ts, ss) ==
    IF ts = <<>> \/ ss = <<>> THEN <<>>
    ELSE <<<<Head(ts), Head(ss)>>>> \o Zip(Tail(ts), Tail(ss))

\* topicsResp and sentimentsResp are what the two collaborators come to
analyze_data(bundle, topicsResp, sentimentsResp) ==
    IF "news" \notin DOMAIN bundle
    THEN [raises |-> TRUE, exc |-> "KeyError", calls |-> <<>>,
          log |-> <<"Data analysis failed">>]
    ELSE
    LET c1 == [callee |-> "extract_topics", arg |-> bundle["news"],
               result |-> topicsResp] IN
    IF topicsResp.raises
    THEN [raises |-> TRUE, exc |-> topicsResp.exc, calls |-> <<c1>>,
          log |-> <<"Data analysis failed">>]
    ELSE
    IF "social_media" \notin DOMAIN bundle
    THEN [raises |-> TRUE, exc |-> "KeyError", calls |-> <<c1>>,
          log |-> <<"Data analysis failed">>]
    ELSE
    LET c2 == [callee |-> "analyze", arg |-> bundle["social_media"],
               result |-> sentimentsResp] IN
    IF sentimentsResp.raises
    THEN [raises |-> TRUE, exc |-> sentimentsResp.exc, calls |-> <<c1, c2>>,
          log |-> <<"Data analysis failed">>]
    ELSE
    LET pairs == Zip(topicsResp.value, sentimentsResp.value) IN
    IF pairs # <<>> /\ "timestamp" \notin DOMAIN bundle
    THEN [raises |-> TRUE, exc |-> "KeyError", calls |-> <<c1, c2>>,
          log |-> <<"Data analysis failed">>]
    ELSE [raises |-> FALSE,
          value |-> [i \in 1..Len(pairs) |->
                        [topic |-> pairs[i][1],
                         sentiment_score |-> pairs[i][2],
                         timestamp |-> bundle["timestamp"]]],
          calls |-> <<c1, c2>>,
          log |-> <<>>]

----------------------------------------------------------------------------
(* MarketValidationModule *)

\* what MarketDataValidator.validate may return: a dict that may lack keys
Verdicts ==
    { Dict(<<>>),
      Dict([is_valid |-> FALSE]),
      Dict([is_valid |-> FALSE, relevance_score |-> 9]),
      Dict([is_valid |-> TRUE]),
      Dict([is_valid |-> TRUE, relevance_score |-> 6]),
      Dict([is_valid |-> TRUE, relevance_score |-> 7]),
      Dict([is_valid |-> TRUE, relevance_score |-> 9]) }

DefaultRelevance == 5

\* {**trend, 'validation_status': 'valid', 'market_relevance_score': score}
ValidatedRecord(trend, score) ==
    ("validation_status" :> "valid" @@ "market_relevance_score" :> score)
        @@ trend

\* the for loop of validate_trends from record i on; vs[i] is what the
\* validator comes to on record i
RECURSIVE ValidateLoopKeepAll(_, _, _, _, _, _)
ValidateLoopKeepAll(ts, vs, i, validated_data, calls, log) ==
    IF i > Len(ts)
    THEN [raises |-> FALSE, value |-> validated_data, calls |-> calls,
          log |-> log]
    ELSE
    LET call == [topic |-> ts[i].topic, result |-> vs[i]] IN
    IF vs[i].raises
    THEN [raises |-> TRUE, exc |-> vs[i].exc, calls |-> Append(calls, call),
          log |-> Append(log, "Market validation failed")]
    ELSE
    ValidateLoopKeepAll(ts, vs, i + 1,
        Append(validated_data,
               ValidatedRecord(ts[i],
                   Get(vs[i].value.items, "relevance_score", DefaultRelevance))),
        Append(calls, call), log)

RECURSIVE ValidateLoopSwallow(_, _, _, _, _, _)
ValidateLoopSwallow(ts, vs, i, validated_data, calls, log) ==
    IF i > Len(ts)
    THEN [raises |-> FALSE, value |-> validated_data, calls |-> calls,
          log |-> log]
    ELSE
    LET call == [topic |-> ts[i].topic, result |-> vs[i]] IN
    IF vs[i].raises
    THEN [raises |-> FALSE, value |-> validated_data,
          calls |-> Append(calls, call),
          log |-> Append(log, "Market validation failed")]
    ELSE
    IF Get(vs[i].value.items, "is_valid", FALSE)
    THEN ValidateLoopSwallow(ts, vs, i + 1,
             Append(validated_data,
                    ValidatedRecord(ts[i],
                        Get(vs[i].value.items, "relevance_score",
                            DefaultRelevance))),
             Append(calls, call), log)
    ELSE ValidateLoopSwallow(ts, vs, i + 1, validated_data,
                             Append(calls, call),
                             Append(log, "Invalid trend detected"))

RECURSIVE ValidateLoop(_, _, _, _, _, _)
ValidateLoop(ts, vs, i, validated_data, calls, log) ==
    IF i > Len(ts)
    THEN [raises |-> FALSE, value |-> validated_data, calls |-> calls,
          log |-> log]
    ELSE
    LET call == [topic |-> ts[i].topic, result |-> vs[i]] IN
    IF vs[i].raises
    THEN [raises |-> TRUE, exc |-> vs[i].exc, calls |-> Append(calls, call),
          log |-> Append(log, "Market validation failed")]
    ELSE
    IF Get(vs[i].value.items, "is_valid", FALSE)
    THEN ValidateLoop(ts, vs, i + 1,
             Append(validated_data,
                    ValidatedRecord(ts[i],
                        Get(vs[i].value.items, "relevance_score",
                            DefaultRelevance))),
             Append(calls, call), log)
    ELSE ValidateLoop(ts, vs, i + 1, validated_data, Append(calls, call),
                      Append(log, "Invalid trend detected"))

validate_trends(ts, vs) == ValidateLoop(ts, vs, 1, <<>>, <<>>, <<>>)

----------------------------------------------------------------------------
(* InsightGenerationModule *)

\* what KnowledgeBaseConnector.query may return
Series == {<<>>, <<4>>, <<-5, 10>>}
KBValues ==
    {None, EmptyDict, Dict([source |-> "kb"])}
        \cup {Dict([revenue_growth |-> s]) : s \in Series}

EmergenceThreshold == 7
Half == Rat(5, 10)
Zero == Rat(0, 10)

KBKeyNoSuffix(trend) == "historical_" \o trend

\* f"historical_{trend}_data"
KBKey(trend) == "historical_" \o trend \o "_data"

\* the conditional expression of the return statement, on the query's value
FeasibilityExpr(historical_data) ==
    IF Truthy(historical_data)
    THEN LET total == Sum(Get(historical_data.items, "revenue_growth", <<0>>))
             n == Len(Get(historical_data.items, "revenue_growth", <<>>))
         IN IF n = 0 THEN Raise("ZeroDivisionError")
            ELSE Ok(Rat(total, 10 * n))
    ELSE Ok(Half)

_calculate_feasibilityNoExcept(trend, resp) ==
    LET q == [key |-> KBKey(trend), result |-> resp] IN
    IF resp.raises
    THEN [raises |-> TRUE, exc |-> resp.exc, query |-> q, log |-> <<>>]
    ELSE
    LET r == FeasibilityExpr(resp.value) IN
    IF r.raises
    THEN [raises |-> TRUE, exc |-> r.exc, query |-> q, log |-> <<>>]
    ELSE [raises |-> FALSE, value |-> r.value, query |-> q, log |-> <<>>]

\* resp is what knowledge_base.query comes to for this trend
_calculate_feasibility(trend, resp) ==
    LET q == [key |-> KBKey(trend), result |-> resp] IN
    IF resp.raises
    THEN [raises |-> FALSE, value |-> Zero, query |-> q,
          log |-> <<"Feasibility calculation failed">>]
    ELSE
    LET r == FeasibilityExpr(resp.value) IN
    IF r.raises
    THEN [raises |-> FALSE, value |-> Zero, query |-> q,
          log |-> <<"Feasibility calculation failed">>]
    ELSE [raises |-> FALSE, value |-> r.value, query |-> q, log |-> <<>>]

\* the comprehension of _generate_recommendations from trend i on
RECURSIVE RecommendationLoop(_, _, _, _, _, _)
RecommendationLoop(ts, rs, i, recs, queries, log) ==
    IF i > Len(ts)
    THEN [raises |-> FALSE, value |-> recs, queries |-> queries, log |-> log]
    ELSE
    LET f == _calculate_feasibility(ts[i], rs[i]) IN
    IF f.raises
    THEN [raises |-> TRUE, exc |-> f.exc,
          queries |-> Append(queries, f.query), log |-> log \o f.log]
    ELSE RecommendationLoop(ts, rs, i + 1,
             Append(recs, [trend |-> ts[i],
                           recommendation_type |-> "entry",
                           feasibility_score |-> f.value]),
             Append(queries, f.query), log \o f.log)

_generate_recommendations(ts, rs) ==
    RecommendationLoop(ts, rs, 1, <<>>, <<>>, <<>>)

IsEmergingStrict(item) == item["market_relevance_score"] > EmergenceThreshold

\* item['market_relevance_score'] >= 0.7
IsEmerging(item) == item["market_relevance_score"] >= EmergenceThreshold

\* [item['topic'] for item in validated_data if ...]
RECURSIVE EmergingTrends(_)
EmergingTrends(validated_data) ==
    IF validated_data = <<>> THEN <<>>
    ELSE (IF IsEmerging(Head(validated_data))
          THEN <<Head(validated_data)["topic"]>> ELSE <<>>)
         \o EmergingTrends(Tail(validated_data))

\* rs[i] is what knowledge_base.query comes to for the i-th emerging trend;
\* now is what datetime.now() reads
generate_insights(validated_data, rs, now) ==
    LET emerging_trends == EmergingTrends(validated_data)
        recs == _generate_recommendations(emerging_trends, rs)
    IN IF recs.raises
       THEN [raises |-> TRUE, exc |-> recs.exc, queries |-> recs.queries,
             log |-> recs.log \o <<"Insight generation failed">>]
       ELSE [raises |-> FALSE,
             value |-> [emerging_trends |-> emerging_trends,
                        timestamp |-> now,
                        recommendations |-> recs.value],
             queries |-> recs.queries,
             log |-> recs.log]

----------------------------------------------------------------------------
(* The main script, statement by statement *)

Init ==
    /\ pc = "collect"
    /\ clock = 0
    /\ raw_data = Unbound
    /\ trends = Unbound
    /\ validated_trends = Unbound
    /\ insights = Unbound
    /\ exc = "none"
    /\ failedAt = "none"
    /\ logged = <<>>
    /\ fetchLog = <<>>
    /\ modelerCalls = <<>>
    /\ validatorCalls = <<>>
    /\ kbQueries = <<>>
    /\ kbUpdates = <<>>
    /\ published = <<>>

\* raw_data = data_collector.collect_market_trends()
Collect ==
    /\ pc = "collect"
    /\ \E newsResp \in Outcomes(NewsDocs), twitterResp \in Outcomes(TwitterDocs),
          now \in clock..MaxClock :
         LET r == collect_market_trends(newsResp, twitterResp, now) IN
         /\ fetchLog' = fetchLog \o r.fetched
         /\ logged' = logged \o r.log
         /\ IF r.raises
            THEN /\ pc' = "except"
                 /\ exc' = r.exc
                 /\ failedAt' = "collect"
                 /\ UNCHANGED <<raw_data, clock>>
            ELSE /\ pc' = "analyze"
                 /\ raw_data' = Bound(r.value)
                 /\ clock' = now
                 /\ UNCHANGED <<exc, failedAt>>
    /\ UNCHANGED <<trends, validated_trends, insights, modelerCalls,
                   validatorCalls, kbQueries, kbUpdates, published>>

\* trends = analyzer.analyze_data(raw_data)
Analyze ==
    /\ pc = "analyze"
    /\ \E topicsResp \in Outcomes(SeqsUpTo(Topics, MaxTopics)),
          sentimentsResp \in Outcomes(SeqsUpTo(Sentiments, MaxSentiments)) :
         LET r == analyze_data(raw_data.value, topicsResp, sentimentsResp) IN
         /\ modelerCalls' = modelerCalls \o r.calls
         /\ logged' = logged \o r.log
         /\ IF r.raises
            THEN /\ pc' = "except"
                 /\ exc' = r.exc
                 /\ failedAt' = "analyze"
                 /\ UNCHANGED trends
            ELSE /\ pc' = "validate"
                 /\ trends' = Bound(r.value)
                 /\ UNCHANGED <<exc, failedAt>>
    /\ UNCHANGED <<clock, raw_data, validated_trends, insights, fetchLog,
                   validatorCalls, kbQueries, kbUpdates, published>>

\* validated_trends = validator.validate_trends(trends)
Validate ==
    /\ pc = "validate"
    /\ \E vs \in [1..Len(trends.value) -> Outcomes(Verdicts)] :
         LET r == validate_trends(trends.value, vs) IN
         /\ validatorCalls' = validatorCalls \o r.calls
         /\ logged' = logged \o r.log
         /\ IF r.raises
            THEN /\ pc' = "except"
                 /\ exc' = r.exc
                 /\ failedAt' = "validate"
                 /\ UNCHANGED validated_trends
            ELSE /\ pc' = "generate"
                 /\ validated_trends' = Bound(r.value)
                 /\ UNCHANGED <<exc, failedAt>>
    /\ UNCHANGED <<clock, raw_data, trends, insights, fetchLog, modelerCalls,
                   kbQueries, kbUpdates, published>>

\* insights = insight_generator.generate_insights(validated_trends)
Generate ==
    /\ pc = "generate"
    /\ \E rs \in [1..Len(EmergingTrends(validated_trends.value))
                     -> Outcomes(KBValues)],
          now \in clock..MaxClock :
         LET r == generate_insights(validated_trends.value, rs, now) IN
         /\ kbQueries' = kbQueries \o r.queries
         /\ logged' = logged \o r.log
         /\ clock' = now
         /\ IF r.raises
            THEN /\ pc' = "except"
                 /\ exc' = r.exc
                 /\ failedAt' = "generate"
                 /\ UNCHANGED insights
            ELSE /\ pc' = "update"
                 /\ insights' = Bound(r.value)
                 /\ UNCHANGED <<exc, failedAt>>
    /\ UNCHANGED <<raw_data, trends, validated_trends, fetchLog, modelerCalls,
                   validatorCalls, kbUpdates, published>>

\* knowledge_base_connector = KnowledgeBaseConnector()
\* knowledge_base_connector.update(insights)
Update ==
    /\ pc = "update"
    /\ \E resp \in Outcomes({None}) :
         IF resp.raises
         THEN /\ pc' = "except"
              /\ exc' = resp.exc
              /\ failedAt' = "update"
              /\ UNCHANGED kbUpdates
         ELSE /\ pc' = "publish"
              /\ kbUpdates' = Append(kbUpdates, insights.value)
              /\ UNCHANGED <<exc, failedAt>>
    /\ UNCHANGED <<clock, raw_data, trends, validated_trends, insights,
                   logged, fetchLog, modelerCalls, validatorCalls, kbQueries,
                   published>>

\* the names the module binds at top level: its imports, logger and classes
ModuleNames ==
    {"requests", "Dict", "List", "Optional", "logging", "datetime", "json",
     "TopicModeler", "SentimentAnalyzer", "MarketDataValidator",
     "KnowledgeBaseConnector", "logger", "DataCollectionModule",
     "DataAnalysisModule", "MarketValidationModule",
     "InsightGenerationModule", "data_collector", "analyzer", "validator",
     "insight_generator", "raw_data", "trends", "validated_trends",
     "insights", "knowledge_base_connector"}

\* json.dumps(insights)
json_dumps(v) == [json |-> v]

\* message_broker.publish("market_research_topic", json.dumps(insights)):
\* the name message_broker is looked up first
Publish ==
    /\ pc = "publish"
    /\ IF "message_broker" \in ModuleNames
       THEN /\ pc' = "exit_0"
            /\ published' = Append(published,
                                [topic |-> "market_research_topic",
                                 payload |-> json_dumps(insights.value)])
            /\ UNCHANGED <<exc, failedAt>>
       ELSE /\ pc' = "except"
            /\ exc' = "NameError"
            /\ failedAt' = "publish"
            /\ UNCHANGED published
    /\ UNCHANGED <<clock, raw_data, trends, validated_trends, insights,
                   logged, fetchLog, modelerCalls, validatorCalls, kbQueries,
                   kbUpdates>>

\* except Exception as e: logger.error(...); the script then ends normally
MainExcept ==
    /\ pc = "except"
    /\ pc' = "exit_0"
    /\ exc' = "none"
    /\ logged' = logged \o <<"Main execution failed">>
    /\ UNCHANGED <<clock, raw_data, trends, validated_trends, insights,
                   failedAt, fetchLog, modelerCalls, validatorCalls,
                   kbQueries, kbUpdates, published>>

Next ==
    Collect \/ Analyze \/ Validate \/ Generate \/ Update \/ Publish
        \/ MainExcept

Spec == Init /\ [][Next]_vars

(* The run up to the end of the analyzer stage *)

NextAnalyze == Collect \/ Analyze \/ MainExcept

SpecAnalyze == Init /\ [][NextAnalyze]_vars

(* The validator stage, from the states in which the collector and the     *)
(* analyzer have returned                                                  *)

AfterAnalyze(topics, sentiments) ==
    LET c == collect_market_trends(Ok("news_a"), Ok("tweets_a"), 0)
        a == analyze_data(c.value, Ok(topics), Ok(sentiments))
    IN
    /\ clock = 0
    /\ raw_data = Bound(c.value)
    /\ trends = Bound(a.value)
    /\ exc = "none"
    /\ failedAt = "none"
    /\ logged = c.log \o a.log
    /\ fetchLog = c.fetched
    /\ modelerCalls = a.calls

InitValidate ==
    /\ \E topics \in SeqsUpTo(Topics, MaxTopics),
          sentiments \in SeqsUpTo(Sentiments, MaxSentiments) :
         AfterAnalyze(topics, sentiments)
    /\ pc = "validate"
    /\ validated_trends = Unbound
    /\ insights = Unbound
    /\ validatorCalls = <<>>
    /\ kbQueries = <<>>
    /\ kbUpdates = <<>>
    /\ published = <<>>

NextValidate == Validate \/ MainExcept

SpecValidate == InitValidate /\ [][NextValidate]_vars

(* The insight generator stage, from the states in which the validator has *)
(* returned                                                                *)

InitGenerate ==
    /\ \E topics \in SeqsUpTo(Topics, MaxValidated) :
         /\ AfterAnalyze(topics, [i \in 1..Len(topics) |-> 8])
         /\ \E vs \in [1..Len(topics) -> {Ok(v) : v \in Verdicts}] :
              LET r == validate_trends(trends.value, vs) IN
              /\ validated_trends = Bound(r.value)
              /\ validatorCalls = r.calls
    /\ pc = "generate"
    /\ insights = Unbound
    /\ kbQueries = <<>>
    /\ kbUpdates = <<>>
    /\ published = <<>>

NextGenerate == Generate

SpecGenerate == InitGenerate /\ [][NextGenerate]_vars

----------------------------------------------------------------------------
(* Properties *)

Min(a, b) == IF a <= b THEN a ELSE b

\* the j-th smallest member of a set of indices
NthIndex(K, j) == CHOOSE i \in K : Cardinality({k \in K : k <= i}) = j

\* both collaborators of the analyzer were called and returned
AnalyzerFed ==
    /\ Len(modelerCalls) = 2
    /\ ~modelerCalls[1].result.raises
    /\ ~modelerCalls[2].result.raises

\* C1: whenever the topic modeler returned N topics and the sentiment
\* analyzer M sentiments, analyze_data raised nothing and returned exactly
\* min(N, M) records, record i pairing topic i with sentiment i; what is left
\* of the longer sequence is in no record.
C1_ZipTruncation ==
    AnalyzerFed =>
        LET topics == modelerCalls[1].result.value
            sentiments == modelerCalls[2].result.value
            n == Min(Len(topics), Len(sentiments))
        IN /\ failedAt # "analyze"
           /\ trends.bound
           /\ Len(trends.value) = n
           /\ \A i \in 1..n :
                /\ trends.value[i].topic = topics[i]
                /\ trends.value[i].sentiment_score = sentiments[i]

C1_Witness ==
    /\ AnalyzerFed
    /\ modelerCalls[1].result.value = <<"ai", "crypto">>
    /\ modelerCalls[2].result.value = <<8>>
    /\ trends.bound
    /\ Len(trends.value) = 1

FetchFailed == \E i \in 1..Len(fetchLog) : fetchLog[i].result.raises

\* C8: collect_market_trends fails whenever a fetch fails and then returns
\* no bundle; a bundle is returned only when both fetches succeeded, and it
\* holds the news result, the social media result and one timestamp, which
\* every record derived from the bundle carries.
C8_CollectAllOrNothing ==
    /\ FetchFailed => (~raw_data.bound /\ failedAt = "collect")
    /\ raw_data.bound =>
         /\ Len(fetchLog) = 2
         /\ ~FetchFailed
         /\ DOMAIN raw_data.value = {"news", "social_media", "timestamp"}
         /\ raw_data.value["news"] = fetchLog[1].result.value
         /\ raw_data.value["social_media"] = fetchLog[2].result.value
         /\ raw_data.value["timestamp"] \in 0..MaxClock
    /\ (raw_data.bound /\ trends.bound) =>
         \A i \in 1..Len(trends.value) :
            trends.value[i].timestamp = raw_data.value["timestamp"]

C8_Witness ==
    /\ Len(fetchLog) = 2
    /\ ~fetchLog[1].result.raises
    /\ fetchLog[2].result.raises
    /\ ~raw_data.bound
    /\ failedAt = "collect"

ValidatorFailed ==
    \E i \in 1..Len(validatorCalls) : validatorCalls[i].result.raises

\* the verdict of call i says is_valid is true
VerdictValid(i) ==
    /\ ~validatorCalls[i].result.raises
    /\ "is_valid" \in DOMAIN validatorCalls[i].result.value.items
    /\ validatorCalls[i].result.value.items["is_valid"] = TRUE

\* the relevance score of call i, 0.5 when the verdict has none
VerdictScore(i) ==
    IF "relevance_score" \in DOMAIN validatorCalls[i].result.value.items
    THEN validatorCalls[i].result.value.items["relevance_score"]
    ELSE 5

\* C2: when no validator call fails, validate_trends returns exactly the
\* input records whose verdict has is_valid true, in their input order, each
\* with validation_status "valid" and the verdict's relevance score (0.5 when
\* the verdict has none); records with a false or missing verdict are dropped
\* and nothing is raised.
C2_StableFilter ==
    (pc # "validate" /\ ~ValidatorFailed) =>
        /\ failedAt # "validate"
        /\ validated_trends.bound
        /\ Len(validatorCalls) = Len(trends.value)
        /\ LET kept == {i \in 1..Len(trends.value) : VerdictValid(i)}
               out == validated_trends.value
           IN /\ Len(out) = Cardinality(kept)
              /\ \A j \in 1..Len(out) :
                   LET i == NthIndex(kept, j) IN
                   /\ out[j]["topic"] = trends.value[i].topic
                   /\ out[j]["sentiment_score"] = trends.value[i].sentiment_score
                   /\ out[j]["timestamp"] = trends.value[i].timestamp
                   /\ out[j]["validation_status"] = "valid"
                   /\ out[j]["market_relevance_score"] = VerdictScore(i)

C2_Witness ==
    /\ pc = "generate"
    /\ Len(validatorCalls) = 2
    /\ validatorCalls[1].result = Ok(Dict([is_valid |-> FALSE]))
    /\ validatorCalls[2].result = Ok(Dict([is_valid |-> TRUE]))
    /\ Len(validated_trends.value) = 1
    /\ validated_trends.value[1]["topic"] = trends.value[2].topic
    /\ validated_trends.value[1]["market_relevance_score"] = 5

\* C9: validate_trends fails if and only if a validator call fails; the
\* failing call is the last one made, so no later record is queried, and no
\* list is returned; a false or missing verdict never makes it fail.
C9_FailsOnlyOnCollaboratorFailure ==
    /\ (failedAt = "validate") <=> ValidatorFailed
    /\ ValidatorFailed =>
         /\ ~validated_trends.bound
         /\ \A i \in 1..Len(validatorCalls) :
              validatorCalls[i].result.raises => i = Len(validatorCalls)
    /\ (pc # "validate" /\ ~ValidatorFailed) =>
         /\ validated_trends.bound
         /\ Len(validatorCalls) = Len(trends.value)

C9_Witness ==
    /\ failedAt = "validate"
    /\ Len(trends.value) = 2
    /\ Len(validatorCalls) = 1
    /\ validatorCalls[1].result.raises
    /\ ~validated_trends.bound

\* C3: emerging_trends holds exactly the topics of the records with
\* market_relevance_score >= 0.7 (0.7 itself included), in input order, one
\* entry per such record, repeated topics kept.
C3_EmergenceFilter ==
    insights.bound =>
        LET v == validated_trends.value
            kept == {i \in 1..Len(v) : v[i]["market_relevance_score"] >= 7}
            out == insights.value.emerging_trends
        IN /\ Len(out) = Cardinality(kept)
           /\ \A j \in 1..Len(out) : out[j] = v[NthIndex(kept, j)]["topic"]

C3_Witness ==
    /\ insights.bound
    /\ Len(validated_trends.value) = 2
    /\ validated_trends.value[1]["topic"] = "ai"
    /\ validated_trends.value[1]["market_relevance_score"] = 7
    /\ validated_trends.value[2]["topic"] = "ai"
    /\ validated_trends.value[2]["market_relevance_score"] = 9
    /\ insights.value.emerging_trends = <<"ai", "ai">>

\* the knowledge base returned a dict whose revenue_growth series is empty
EmptySeries(resp) ==
    /\ ~resp.raises
    /\ resp.value.type = "dict"
    /\ "revenue_growth" \in DOMAIN resp.value.items
    /\ resp.value.items["revenue_growth"] = <<>>

\* C4: an emerging topic whose knowledge base query returns data with an
\* empty revenue_growth series gets feasibility score 0.5.
C4_EmptySeriesIsHalf ==
    insights.bound =>
        \A i \in 1..Len(kbQueries) :
            EmptySeries(kbQueries[i].result) =>
                insights.value.recommendations[i].feasibility_score = Half

\* C5: generate_insights completes whichever knowledge base queries raise;
\* a topic whose query raised has feasibility score 0.0, and every other
\* topic of the batch has the score it has when scored alone.
C5_PerTopicIsolation ==
    (pc # "generate") =>
        /\ failedAt # "generate"
        /\ insights.bound
        /\ Len(insights.value.recommendations) = Len(kbQueries)
        /\ \A i \in 1..Len(kbQueries) :
             LET score == insights.value.recommendations[i].feasibility_score
                 resp == kbQueries[i].result
                 trend == insights.value.emerging_trends[i]
             IN IF resp.raises
                THEN score = Zero
                ELSE score = _generate_recommendations(<<trend>>, <<resp>>)
                                 .value[1].feasibility_score

C5_Witness ==
    /\ insights.bound
    /\ Len(kbQueries) = 2
    /\ kbQueries[1].result.raises
    /\ kbQueries[2].result = Ok(Dict([revenue_growth |-> <<4>>]))
    /\ insights.value.recommendations[1].feasibility_score = Zero
    /\ insights.value.recommendations[2].feasibility_score = Rat(2, 5)

\* C10: recommendations and emerging_trends have the same length, the i-th
\* recommendation is for the i-th emerging trend with type "entry", and the
\* knowledge base is queried once per emerging-trend entry, in order, with
\* key "historical_" + topic + "_data", and for no other record.
C10_OneRecommendationPerTrend ==
    insights.bound =>
        LET em == insights.value.emerging_trends
            recs == insights.value.recommendations
            v == validated_trends.value
        IN /\ Len(recs) = Len(em)
           /\ \A i \in 1..Len(em) :
                /\ recs[i].trend = em[i]
                /\ recs[i].recommendation_type = "entry"
           /\ Len(kbQueries) = Len(em)
           /\ Len(kbQueries) =
                Cardinality({i \in 1..Len(v) :
                                v[i]["market_relevance_score"] >= 7})
           /\ \A i \in 1..Len(em) :
                kbQueries[i].key = "historical_" \o em[i] \o "_data"

C10_Witness ==
    /\ insights.bound
    /\ Len(validated_trends.value) = 2
    /\ validated_trends.value[1]["market_relevance_score"] = 6
    /\ validated_trends.value[2]["market_relevance_score"] = 9
    /\ Len(insights.value.recommendations) = 1
    /\ kbQueries = <<[key |-> "historical_crypto_data",
                      result |-> Ok(None)]>>

\* C6: when the collector, the analyzer or the validator fails, no later
\* stage starts, no insight is generated, nothing is sent to the knowledge
\* base or the broker, and the failure stays raised for the caller of the
\* run: it is not swallowed.
C6_AbortAndSurface ==
    (failedAt \in {"collect", "analyze", "validate"}) =>
        /\ pc \in {"except", "exit_0"}
        /\ ~insights.bound
        /\ kbQueries = <<>>
        /\ kbUpdates = <<>>
        /\ published = <<>>
        /\ failedAt = "collect" => (modelerCalls = <<>> /\ validatorCalls = <<>>)
        /\ failedAt = "analyze" => validatorCalls = <<>>
        /\ exc # "none"

\* C7: a run in which the four stages succeed and the knowledge base took
\* the update ends with the payload handed to the publish sink on topic
\* "market_research_topic", after the update.
C7_PersistedThenPublished ==
    (pc = "exit_0" /\ insights.bound /\ kbUpdates = <<insights.value>>) =>
        published = <<[topic |-> "market_research_topic",
                       payload |-> json_dumps(insights.value)]>>

====
